---- MODULE Spec2Model ----
(***************************************************************************)
(* Model of app/question_manager.py (class QuestionManager): the SQLite    *)
(* tables submissions, student_metrics and test_sessions, the submission   *)
(* files directory, the process-wide Lock, and every method as a sequence  *)
(* of steps run by a request thread.  Time is counted in ticks of          *)
(* 1/TicksPerSec second so that int() truncation and the 3.0 s debounce    *)
(* threshold are both observable.                                          *)
(***************************************************************************)
EXTENDS Integers, Sequences, FiniteSets, TLC

VARIABLES clock, test_sessions, submissions, student_metrics, files,
          lock, pc, username, qname, row, start_ts, last_ts, now, before,
          last_inc, calls, question_text, key, verified

vars == <<clock, test_sessions, submissions, student_metrics, files,
          lock, pc, username, qname, row, start_ts, last_ts, now, before,
          last_inc, calls, question_text, key, verified>>

store == <<test_sessions, submissions, student_metrics, files>>
locals == <<username, qname, row, start_ts, last_ts, now, before>>
\* what verify_key reads and returns
verify == <<question_text, key, verified>>

(* ---------------------------- bounds ----------------------------------- *)
\* clock resolution: ticks per second
TicksPerSec == 2
\* time.time() when the manager is constructed, in ticks (the epoch clock is
\* far past 3 seconds)
T0 == 20
\* how many method calls a behaviour makes
MaxCalls == 2
\* how many calls a behaviour of the leave-count specification makes
MaxLeaveCalls == 4

(* --------------------------- configuration ----------------------------- *)
Threads == {"t1", "t2"}
Usernames == {"alice", "bob"}
QNames == {"question1", "question2"}
NoUser == "-"
NoQ == "-"
None == <<>>

\* self.timers
timers == [question1 |-> 20, question2 |-> 900, question3 |-> 1200,
           question4 |-> 900, question5 |-> 600]

RECURSIVE SumOver(_, _)
SumOver(f, S) ==
    IF S = {} THEN 0
    ELSE LET k == CHOOSE x \in S : TRUE IN f[k] + SumOver(f, S \ {k})

\* self.total_time = sum(self.timers.values())
total_time == SumOver(timers, DOMAIN timers)

\* self.logins['students'] usernames (the roster file holds alice only; bob
\* is a user who reaches the store without being on the roster)
students == {"alice"}

\* the debounce threshold of increment_leave_count, seconds
DebounceSeconds == 3

Max(a, b) == IF a >= b THEN a ELSE b

\* int() replaced by rounding up to the next whole second
PyInt_up(ticks) ==
    IF ticks >= 0 THEN (ticks + TicksPerSec - 1) \div TicksPerSec
    ELSE -((-ticks) \div TicksPerSec)

\* Python int() of a number of ticks expressed in seconds: truncation
\* toward zero
PyInt(ticks) ==
    IF ticks >= 0 THEN ticks \div TicksPerSec
    ELSE -((-ticks) \div TicksPerSec)

\* cursor.fetchone() over a result set holding at most one row
fetchone(rows) == IF rows = {} THEN None ELSE <<CHOOSE r \in rows : TRUE>>

\* Python truthiness of "row and row[0]" for a fetched one-column row
Truthy(r) == r # None /\ r[1] # 0

\* sqlite3 raises ProgrammingError unless the statement's "?" placeholders
\* and the supplied parameter tuple have the same length
BindingsOk(placeholders, params) == placeholders = Len(params)

(* ----------------------------- queries --------------------------------- *)
\* SELECT start_time FROM test_sessions WHERE username = ?
SelectSession(u) ==
    fetchone({r.start_time : r \in {s \in test_sessions : s.username = u}})

\* SELECT start_time FROM submissions WHERE username=? AND question=?
SelectSubStart(u, q) ==
    fetchone({r.start_time : r \in {s \in submissions :
                                     s.username = u /\ s.question = q}})

\* SELECT submitted FROM submissions WHERE username=? AND question=?
SelectSubmitted(u, q) ==
    fetchone({r.submitted : r \in {s \in submissions :
                                    s.username = u /\ s.question = q}})

has_global_started(u) == Truthy(SelectSession(u))

\* get_global_time_left without the max(0, ...) clamp
get_global_time_left_unclamped(u) ==
    LET r == SelectSession(u) IN
    IF Truthy(r)
    THEN LET elapsed == clock - r[1]
             left == total_time * TicksPerSec - elapsed
         IN PyInt(left)
    ELSE total_time

get_global_time_left(u) ==
    LET r == SelectSession(u) IN
    IF Truthy(r)
    THEN LET elapsed == clock - r[1]
             left == total_time * TicksPerSec - elapsed
         IN Max(0, PyInt(left))
    ELSE total_time

get_time_left(u, q) == get_global_time_left(u)

\* can_access taking the presence of a row, not its submitted flag, as
\* "submitted"
can_access_any_row(u, q) ==
    LET left == get_global_time_left(u)
        submitted == SelectSubmitted(u, q) # None
    IN left > 0 /\ ~submitted

can_access(u, q) ==
    LET left == get_global_time_left(u)
        submitted == Truthy(SelectSubmitted(u, q))
    IN left > 0 /\ ~submitted

\* returns "row and row[0]": None, 0 or 1; used for its truth value
has_submitted(u, q) == Truthy(SelectSubmitted(u, q))

get_all_submissions ==
    LET users == students \cup {r.username : r \in submissions}
        qs(u) == DOMAIN timers \cup
                 {r.question : r \in {s \in submissions : s.username = u}}
        fromRows(u, q) == \E r \in submissions :
                             r.username = u /\ r.question = q /\ r.submitted # 0
        fromFiles(u, q) == q \in DOMAIN timers /\ <<u, q>> \in files
    IN [u \in users |-> [q \in qs(u) |-> fromRows(u, q) \/ fromFiles(u, q)]]

get_leave_counts ==
    LET users == students \cup {r.username : r \in student_metrics}
        cnt(u) == IF \E r \in student_metrics : r.username = u
                  THEN (CHOOSE r \in student_metrics : r.username = u).leave_count
                  ELSE 0
    IN [u \in users |-> cnt(u)]

(* ------------------------------ state ---------------------------------- *)
DebounceTicks == DebounceSeconds * TicksPerSec
TotalTicks == total_time * TicksPerSec

\* the offsets from a reference instant at which the clock is observed: the
\* instant itself, one tick later, one tick before the debounce threshold,
\* and the threshold
Offsets == {0, 1, DebounceTicks - 1, DebounceTicks}

\* the values time.time() takes: these offsets after construction, and the
\* same offsets one full test duration later
ClockValues == {T0 + k : k \in Offsets} \cup
               {T0 + TotalTicks + k : k \in Offsets}

\* _init_db on a fresh database file and an empty submissions directory;
\* calls is the number of method calls the behaviour may still make
Fresh ==
    /\ clock = T0
    /\ test_sessions = {}
    /\ submissions = {}
    /\ student_metrics = {}
    /\ files = {}
    /\ lock = "free"
    /\ pc = [t \in Threads |-> "idle"]
    /\ username = [t \in Threads |-> NoUser]
    /\ qname = [t \in Threads |-> NoQ]
    /\ row = [t \in Threads |-> None]
    /\ start_ts = [t \in Threads |-> 0]
    /\ last_ts = [t \in Threads |-> 0]
    /\ now = [t \in Threads |-> 0]
    /\ before = [t \in Threads |-> [file |-> FALSE, submitted |-> None]]
    /\ last_inc = [u \in Usernames |-> 0]

\* no question file is read and no key has been checked
NoVerify ==
    /\ question_text = None
    /\ key = None
    /\ verified = "-"

Init == Fresh /\ NoVerify /\ calls = MaxCalls

\* a thread that is not inside any method (never called, returned, or the
\* last call raised)
Idle(t) == pc[t] \in {"idle", "raised"}

\* the submission state of (username, qname) when the thread entered its
\* current method: whether the submission file existed and what the
\* submitted column held; NoEntry outside a method
NoEntry == [file |-> FALSE, submitted |-> None]

\* the thread leaves the method: outcome "idle" is a normal return, "raised"
\* an exception propagated to the caller; its frame is dropped
Leave(t, outcome) ==
    /\ pc' = [pc EXCEPT ![t] = outcome]
    /\ username' = [username EXCEPT ![t] = NoUser]
    /\ qname' = [qname EXCEPT ![t] = NoQ]
    /\ row' = [row EXCEPT ![t] = None]
    /\ start_ts' = [start_ts EXCEPT ![t] = 0]
    /\ last_ts' = [last_ts EXCEPT ![t] = 0]
    /\ now' = [now EXCEPT ![t] = 0]
    /\ before' = [before EXCEPT ![t] = NoEntry]

\* leaving a "with self.lock" block, normally or by exception
Release(t) == lock' = IF lock = t THEN "free" ELSE lock

Enter(t, label, u, q) ==
    /\ Idle(t)
    /\ calls > 0
    /\ calls' = calls - 1
    /\ pc' = [pc EXCEPT ![t] = label]
    /\ username' = [username EXCEPT ![t] = u]
    /\ qname' = [qname EXCEPT ![t] = q]
    /\ before' = [before EXCEPT ![t] =
          [file |-> <<u, q>> \in files, submitted |-> SelectSubmitted(u, q)]]
    /\ UNCHANGED <<clock, store, lock, row, start_ts, last_ts, now, last_inc,
                   verify>>

\* time.time() is read again by a later statement
Tick ==
    /\ \E c \in ClockValues : c > clock /\ clock' = c
    /\ UNCHANGED <<store, lock, pc, locals, last_inc, calls, verify>>

\* the first statement after "with self.lock" of each method
AfterLock == [sgt_lock |-> "sgt_select", st_lock |-> "st_select",
              sa_lock |-> "sa_replace", ss_lock |-> "ss_replace",
              mv_lock |-> "mv_select", il_lock |-> "il_select"]

\* "with self.lock": block until the Lock is free, then take it
Acquire(t) ==
    /\ pc[t] \in DOMAIN AfterLock
    /\ lock = "free"
    /\ lock' = t
    /\ pc' = [pc EXCEPT ![t] = AfterLock[pc[t]]]
    /\ UNCHANGED <<clock, store, locals, last_inc, calls, verify>>

(* ----------------------- start_global_timer ---------------------------- *)
start_global_timer(t, u) == Enter(t, "sgt_lock", u, NoQ)

\* start_global_timer without the "if not row" test
sgt_select_unchecked(t) ==
    /\ pc[t] = "sgt_select"
    /\ pc' = [pc EXCEPT ![t] = "sgt_insert"]
    /\ UNCHANGED <<clock, store, lock, locals, last_inc, calls, verify>>

sgt_select(t) ==
    /\ pc[t] = "sgt_select"
    /\ LET r == SelectSession(username[t]) IN
       IF r = None
       THEN /\ pc' = [pc EXCEPT ![t] = "sgt_insert"]
            /\ UNCHANGED <<lock, locals>>
       ELSE Leave(t, "idle") /\ Release(t)
    /\ UNCHANGED <<clock, store, last_inc, calls, verify>>

sgt_insert(t) ==
    /\ pc[t] = "sgt_insert"
    /\ IF BindingsOk(2, <<username[t], clock>>)
       THEN /\ test_sessions' = test_sessions \cup
                 {[username |-> username[t], start_time |-> clock]}
            /\ Leave(t, "idle")
       ELSE /\ UNCHANGED test_sessions
            /\ Leave(t, "raised")
    /\ Release(t)
    /\ UNCHANGED <<clock, submissions, student_metrics, files, last_inc, calls, verify>>

(* ---------------------------- start_timer ------------------------------ *)
Upsert(u, q, sub, st) ==
    {r \in submissions : ~(r.username = u /\ r.question = q)} \cup
    {[username |-> u, question |-> q, submitted |-> sub, start_time |-> st]}

start_timer(t, u, q) == Enter(t, "st_lock", u, q)

st_select(t) ==
    /\ pc[t] = "st_select"
    /\ LET r == SelectSubStart(username[t], qname[t]) IN
       IF r = None
       THEN /\ pc' = [pc EXCEPT ![t] = "st_insert"]
            /\ UNCHANGED <<lock, locals>>
       ELSE Leave(t, "idle") /\ Release(t)
    /\ UNCHANGED <<clock, store, last_inc, calls, verify>>

st_insert(t) ==
    /\ pc[t] = "st_insert"
    /\ IF BindingsOk(3, <<username[t], qname[t], 0, clock>>)
       THEN /\ submissions' = Upsert(username[t], qname[t], 0, clock)
            /\ Leave(t, "idle")
       ELSE /\ UNCHANGED submissions
            /\ Leave(t, "raised")
    /\ Release(t)
    /\ UNCHANGED <<clock, test_sessions, student_metrics, files, last_inc, calls, verify>>

(* --------------------------- submit_answer ----------------------------- *)
submit_answer(t, u, q) == Enter(t, "sa_lock", u, q)

\* os.makedirs + os.replace(file_path, dest): fails when the uploaded file
\* is not at file_path
sa_replace(t) ==
    /\ pc[t] = "sa_replace"
    /\ \E moved \in BOOLEAN :
         IF moved
         THEN /\ files' = files \cup {<<username[t], qname[t]>>}
              /\ pc' = [pc EXCEPT ![t] = "sa_insert"]
              /\ UNCHANGED <<lock, locals>>
         ELSE /\ UNCHANGED files
              /\ Leave(t, "raised")
              /\ Release(t)
    /\ UNCHANGED <<clock, test_sessions, submissions, student_metrics, last_inc, calls, verify>>

\* submit_answer taking the lock with acquire() and releasing it only on
\* the normal path
sa_insert_keep_lock(t) ==
    /\ pc[t] = "sa_insert"
    /\ LET u == username[t]
           q == qname[t]
           old == SelectSubStart(u, q)
       IN IF BindingsOk(5, <<u, q, 1, u, q, clock>>)
          THEN /\ submissions' = Upsert(u, q, 1,
                                   IF old = None THEN clock ELSE old[1])
               /\ Leave(t, "idle")
               /\ Release(t)
          ELSE /\ UNCHANGED <<submissions, lock>>
               /\ Leave(t, "raised")
    /\ UNCHANGED <<clock, test_sessions, student_metrics, files, last_inc, calls, verify>>

sa_insert(t) ==
    /\ pc[t] = "sa_insert"
    /\ LET u == username[t]
           q == qname[t]
           old == SelectSubStart(u, q)
       IN IF BindingsOk(5, <<u, q, 1, u, q, clock>>)
          THEN /\ submissions' = Upsert(u, q, 1,
                                   IF old = None THEN clock ELSE old[1])
               /\ Leave(t, "idle")
          ELSE /\ UNCHANGED submissions
               /\ Leave(t, "raised")
    /\ Release(t)
    /\ UNCHANGED <<clock, test_sessions, student_metrics, files, last_inc, calls, verify>>

(* ------------------------ save_submission_file -------------------------- *)
save_submission_file(t, u, q) == Enter(t, "ss_lock", u, q)

ss_replace(t) ==
    /\ pc[t] = "ss_replace"
    /\ \E moved \in BOOLEAN :
         IF moved
         THEN /\ files' = files \cup {<<username[t], qname[t]>>}
              /\ Leave(t, "idle")
         ELSE /\ UNCHANGED files
              /\ Leave(t, "raised")
    /\ Release(t)
    /\ UNCHANGED <<clock, test_sessions, submissions, student_metrics, last_inc, calls, verify>>

(* ---------------------- mark_submission_verified ------------------------ *)
mark_submission_verified(t, u, q) == Enter(t, "mv_lock", u, q)

mv_select(t) ==
    /\ pc[t] = "mv_select"
    /\ LET existing == SelectSubStart(username[t], qname[t])
           r == SelectSession(username[t])
       IN /\ row' = [row EXCEPT ![t] = existing]
          /\ start_ts' = [start_ts EXCEPT ![t] =
                IF Truthy(existing) THEN existing[1]
                ELSE IF Truthy(r) THEN r[1] ELSE clock]
    /\ pc' = [pc EXCEPT ![t] = "mv_insert"]
    /\ UNCHANGED <<clock, store, lock, username, qname, last_ts, now, before, last_inc, calls, verify>>

\* mark_submission_verified swallowing the failure of its INSERT
mv_insert_swallow(t) ==
    /\ pc[t] = "mv_insert"
    /\ IF BindingsOk(3, <<username[t], qname[t], 1, start_ts[t]>>)
       THEN submissions' = Upsert(username[t], qname[t], 1, start_ts[t])
       ELSE UNCHANGED submissions
    /\ Leave(t, "idle")
    /\ Release(t)
    /\ UNCHANGED <<clock, test_sessions, student_metrics, files, last_inc, calls, verify>>

mv_insert(t) ==
    /\ pc[t] = "mv_insert"
    /\ IF BindingsOk(3, <<username[t], qname[t], 1, start_ts[t]>>)
       THEN /\ submissions' = Upsert(username[t], qname[t], 1, start_ts[t])
            /\ Leave(t, "idle")
       ELSE /\ UNCHANGED submissions
            /\ Leave(t, "raised")
    /\ Release(t)
    /\ UNCHANGED <<clock, test_sessions, student_metrics, files, last_inc, calls, verify>>

(* -------------------------------- reset --------------------------------- *)
reset(t) == Enter(t, "rs_delete", NoUser, NoQ)

\* reset deleting only the rows marked submitted
rs_delete_submitted_only(t) ==
    /\ pc[t] = "rs_delete"
    /\ submissions' = {r \in submissions : r.submitted = 0}
    /\ Leave(t, "idle")
    /\ UNCHANGED <<clock, test_sessions, student_metrics, files, lock, last_inc, calls, verify>>

\* reset clearing the metrics and session tables as well
rs_delete_all_tables(t) ==
    /\ pc[t] = "rs_delete"
    /\ submissions' = {}
    /\ student_metrics' = {}
    /\ test_sessions' = {}
    /\ Leave(t, "idle")
    /\ UNCHANGED <<clock, files, lock, last_inc, calls, verify>>

\* reset giving every student a new session as well
rs_delete_sessions(t) ==
    /\ pc[t] = "rs_delete"
    /\ submissions' = {}
    /\ test_sessions' = {}
    /\ Leave(t, "idle")
    /\ UNCHANGED <<clock, student_metrics, files, lock, last_inc, calls, verify>>

rs_delete(t) ==
    /\ pc[t] = "rs_delete"
    /\ submissions' = {}
    /\ Leave(t, "idle")
    /\ UNCHANGED <<clock, test_sessions, student_metrics, files, lock, last_inc, calls, verify>>

(* ------------------------ increment_leave_count ------------------------- *)
\* the statements on student_metrics without "WHERE username=?"
MetricsRow_any(u) == student_metrics

MetricsRow(u) == {r \in student_metrics : r.username = u}

increment_leave_count(t, u) == Enter(t, "il_lock", u, NoQ)

\* INSERT OR IGNORE (leave_count 0, last_leave_ts 0), SELECT last_leave_ts,
\* now = time.time(); the inserted row is committed by il_update
il_select(t) ==
    /\ pc[t] = "il_select"
    /\ LET r == fetchone({m.last_leave_ts : m \in MetricsRow(username[t])})
       IN last_ts' = [last_ts EXCEPT ![t] = IF r = None THEN 0 ELSE r[1]]
    /\ now' = [now EXCEPT ![t] = clock]
    /\ pc' = [pc EXCEPT ![t] = "il_update"]
    /\ UNCHANGED <<clock, store, lock, username, qname, row, start_ts, before, last_inc, calls, verify>>

\* increment_leave_count counting only events strictly more than 3.0
\* seconds after the previous one
il_update_strict(t) ==
    /\ pc[t] = "il_update"
    /\ LET u == username[t]
           old == IF MetricsRow(u) = {} THEN 0
                  ELSE (CHOOSE m \in MetricsRow(u) : TRUE).leave_count
           counted == now[t] - last_ts[t] > DebounceTicks
       IN /\ student_metrics' = (student_metrics \ MetricsRow(u)) \cup
               {[username |-> u,
                 leave_count |-> IF counted THEN old + 1 ELSE old,
                 last_leave_ts |-> now[t]]}
          /\ last_inc' = [last_inc EXCEPT ![u] = IF counted THEN 1 ELSE 0]
    /\ Leave(t, "idle")
    /\ Release(t)
    /\ UNCHANGED <<clock, test_sessions, submissions, files, calls, verify>>

\* increment_leave_count leaving last_leave_ts alone when the event is not
\* counted
il_update_keep_ts(t) ==
    /\ pc[t] = "il_update"
    /\ LET u == username[t]
           old == IF MetricsRow(u) = {} THEN 0
                  ELSE (CHOOSE m \in MetricsRow(u) : TRUE).leave_count
           counted == now[t] - last_ts[t] >= DebounceTicks
       IN /\ student_metrics' = (student_metrics \ MetricsRow(u)) \cup
               {[username |-> u,
                 leave_count |-> IF counted THEN old + 1 ELSE old,
                 last_leave_ts |-> IF counted THEN now[t] ELSE last_ts[t]]}
          /\ last_inc' = [last_inc EXCEPT ![u] = IF counted THEN 1 ELSE 0]
    /\ Leave(t, "idle")
    /\ Release(t)
    /\ UNCHANGED <<clock, test_sessions, submissions, files, calls, verify>>

il_update(t) ==
    /\ pc[t] = "il_update"
    /\ LET u == username[t]
           old == IF MetricsRow(u) = {} THEN 0
                  ELSE (CHOOSE m \in MetricsRow(u) : TRUE).leave_count
           counted == now[t] - last_ts[t] >= DebounceTicks
       IN /\ student_metrics' = (student_metrics \ MetricsRow(u)) \cup
               {[username |-> u,
                 leave_count |-> IF counted THEN old + 1 ELSE old,
                 last_leave_ts |-> now[t]]}
          /\ last_inc' = [last_inc EXCEPT ![u] = IF counted THEN 1 ELSE 0]
    /\ Leave(t, "idle")
    /\ Release(t)
    /\ UNCHANGED <<clock, test_sessions, submissions, files, calls, verify>>

(* --------------------------- specification ------------------------------ *)
Next ==
    \/ Tick
    \/ \E t \in Threads : Acquire(t)
    \/ \E t \in Threads, u \in Usernames : start_global_timer(t, u)
    \/ \E t \in Threads : sgt_select(t)
    \/ \E t \in Threads : sgt_insert(t)
    \/ \E t \in Threads, u \in Usernames, q \in QNames : start_timer(t, u, q)
    \/ \E t \in Threads : st_select(t)
    \/ \E t \in Threads : st_insert(t)
    \/ \E t \in Threads, u \in Usernames, q \in QNames : submit_answer(t, u, q)
    \/ \E t \in Threads : sa_replace(t)
    \/ \E t \in Threads : sa_insert(t)
    \/ \E t \in Threads, u \in Usernames, q \in QNames : save_submission_file(t, u, q)
    \/ \E t \in Threads : ss_replace(t)
    \/ \E t \in Threads, u \in Usernames, q \in QNames : mark_submission_verified(t, u, q)
    \/ \E t \in Threads : mv_select(t)
    \/ \E t \in Threads : mv_insert(t)
    \/ \E t \in Threads : reset(t)
    \/ \E t \in Threads : rs_delete(t)
    \/ \E t \in Threads, u \in Usernames : increment_leave_count(t, u)
    \/ \E t \in Threads : il_select(t)
    \/ \E t \in Threads : il_update(t)

Spec == Init /\ [][Next]_vars

\* the leave-count recorder alone, followed for more calls
InitLeave == Fresh /\ NoVerify /\ calls = MaxLeaveCalls

NextLeave ==
    \/ Tick
    \/ \E t \in Threads : Acquire(t)
    \/ \E t \in Threads, u \in Usernames : increment_leave_count(t, u)
    \/ \E t \in Threads : il_select(t)
    \/ \E t \in Threads : il_update(t)

SpecLeave == InitLeave /\ [][NextLeave]_vars

TypeOK ==
    /\ clock \in ClockValues
    /\ lock \in Threads \cup {"free"}
    /\ \A r \in test_sessions : r.username \in Usernames
    /\ \A r \in submissions : r.submitted \in {0, 1}

(* ------------------- a database that already holds rows ---------------- *)
\* _init_db uses CREATE TABLE IF NOT EXISTS: the manager may be constructed
\* on a database file that an earlier run left behind.  The submissions
\* tables such a file may hold: at most one row per (username, question),
\* submitted 0 or 1, started one tick before this construction.
OldRows == [username : Usernames, question : QNames, submitted : {0, 1},
            start_time : {T0 - 1}]

OldTables ==
    {tbl \in SUBSET OldRows :
        /\ Cardinality(tbl) <= 2
        /\ \A r1, r2 \in tbl :
              (r1.username = r2.username /\ r1.question = r2.question) => r1 = r2}

\* the earlier run may also have left alice's session and her leave record
OldSessions == {{}, {[username |-> "alice", start_time |-> T0 - 1]}}

OldMetrics == {{}, {[username |-> "alice", leave_count |-> 1,
                     last_leave_ts |-> T0 - 1]}}

InitDb ==
    /\ clock = T0
    /\ test_sessions \in OldSessions
    /\ submissions \in OldTables
    /\ student_metrics \in OldMetrics
    /\ files = {}
    /\ lock = "free"
    /\ pc = [t \in Threads |-> "idle"]
    /\ username = [t \in Threads |-> NoUser]
    /\ qname = [t \in Threads |-> NoQ]
    /\ row = [t \in Threads |-> None]
    /\ start_ts = [t \in Threads |-> 0]
    /\ last_ts = [t \in Threads |-> 0]
    /\ now = [t \in Threads |-> 0]
    /\ before = [t \in Threads |-> [file |-> FALSE, submitted |-> None]]
    /\ last_inc = [u \in Usernames |-> 0]
    /\ question_text = None
    /\ key = None
    /\ verified = "-"
    /\ calls = 1

SpecDb == InitDb /\ [][Next]_vars

(* ================================ claims ================================ *)

\* C3: first-start-wins.  Once test_sessions holds a row for a user, every
\* step of every operation (a later start_global_timer included, also one
\* racing on another thread) leaves that row in place and adds no second
\* row for the user: the recorded start_time never changes.
C3_FirstStartWins ==
    [][\A r \in test_sessions :
          /\ r \in test_sessions'
          /\ \A r2 \in test_sessions' : r2.username = r.username => r2 = r]_vars

\* a later start_global_timer(u) has taken the lock and is reading the
\* session row that an earlier call wrote at an earlier time
C3_Witness ==
    \E t \in Threads :
        /\ pc[t] = "sgt_select"
        /\ \E r \in test_sessions :
              r.username = username[t] /\ r.start_time < clock

\* C4: for a started session get_global_time_left never increases from one
\* state to the next, whatever step is taken, and is never negative.
C4_TimeLeftMonotone ==
    [][\A u \in Usernames :
          has_global_started(u) =>
             /\ get_global_time_left(u)' <= get_global_time_left(u)
             /\ get_global_time_left(u)' >= 0]_vars

\* a started session whose duration has been exceeded: the raw difference
\* is negative and the reported value is clamped to 0
C4_Witness ==
    \E r \in test_sessions :
        /\ clock - r.start_time > TotalTicks
        /\ get_global_time_left(r.username) = 0

\* C9: get_global_time_left(u) is the sum of the five question allotments
\* when u has no started session; otherwise it is the integer v with
\* v <= max(0, duration - (now - start_time)) < v + 1.
C9_TimeLeftValue ==
    \A u \in Usernames :
        LET v == get_global_time_left(u)
            duration == timers["question1"] + timers["question2"] +
                        timers["question3"] + timers["question4"] +
                        timers["question5"]
        IN IF \E r \in test_sessions : r.username = u /\ r.start_time # 0
           THEN \A r \in test_sessions :
                   r.username = u =>
                      LET left == duration * TicksPerSec - (clock - r.start_time)
                          clamped == IF left > 0 THEN left ELSE 0
                      IN /\ v * TicksPerSec <= clamped
                         /\ clamped < (v + 1) * TicksPerSec
           ELSE v = duration

\* one user has not started (full duration) while another started a
\* fraction of a second ago, so that flooring drops the fraction
C9_Witness ==
    /\ \E u \in Usernames : ~has_global_started(u)
    /\ \E r \in test_sessions :
          /\ (clock - r.start_time) % TicksPerSec # 0
          /\ clock - r.start_time < TotalTicks
          /\ get_global_time_left(r.username) < total_time

\* C8: can_access(u, q) is true exactly when time is left for u and there
\* is no (u, q) row whose submitted flag is 1; a missing row and a row with
\* submitted = 0 do not block access.
C8_CanAccessIff ==
    \A u \in Usernames, q \in QNames :
        can_access(u, q) <=>
           /\ get_global_time_left(u) > 0
           /\ ~\E r \in submissions :
                  r.username = u /\ r.question = q /\ r.submitted = 1

\* u's session is running with time left: u's question with a row of
\* submitted = 0 is accessible and the one with a row of submitted = 1 is
\* not; v has no session and no row and can access a question
C8_Witness ==
    \E u, v \in Usernames, q1, q2 \in QNames :
        /\ has_global_started(u)
        /\ clock > T0
        /\ get_global_time_left(u) > 0
        /\ ~has_global_started(v)
        /\ \E r \in submissions :
              r.username = u /\ r.question = q1 /\ r.submitted = 0
        /\ can_access(u, q1)
        /\ \E r \in submissions :
              r.username = u /\ r.question = q2 /\ r.submitted = 1
        /\ ~can_access(u, q2)
        /\ ~\E r \in submissions : r.username = v
        /\ can_access(v, q1)

\* leave_count of u, 0 when u has no student_metrics row
LeaveCount(u) ==
    IF MetricsRow(u) = {} THEN 0
    ELSE (CHOOSE m \in MetricsRow(u) : TRUE).leave_count

\* last_leave_ts of u, 0 when u has no student_metrics row
LastLeave(u) ==
    IF MetricsRow(u) = {} THEN 0
    ELSE (CHOOSE m \in MetricsRow(u) : TRUE).last_leave_ts

\* thread t completes increment_leave_count for user u in this step
LeaveDone(t, u) ==
    pc[t] = "il_update" /\ username[t] = u /\ pc'[t] # "il_update"

\* C5 as stated: a call made less than 3 seconds after the previous call
\* for the same user brings the two calls' total increment to exactly 1; a
\* call made 3 seconds or more after the previous one increments by 1.
C5_ExactlyOnePerPair ==
    [][\A t \in Threads, u \in Usernames :
          LeaveDone(t, u) =>
             /\ (MetricsRow(u) # {} /\ now[t] - LastLeave(u) < DebounceTicks)
                   => last_inc[u] + (LeaveCount(u)' - LeaveCount(u)) = 1
             /\ now[t] - LastLeave(u) >= DebounceTicks
                   => LeaveCount(u)' = LeaveCount(u) + 1]_vars

\* C5 as amended: a call made less than 3 seconds after the previous call
\* for the same user leaves leave_count unchanged, so the two calls together
\* add what the earlier one added, 0 or 1; a call made 3 seconds or more
\* after the previous one increments by 1.
C5_Debounce ==
    [][\A t \in Threads, u \in Usernames :
          LeaveDone(t, u) =>
             /\ (MetricsRow(u) # {} /\ now[t] - LastLeave(u) < DebounceTicks)
                   => /\ LeaveCount(u)' = LeaveCount(u)
                      /\ last_inc[u] + (LeaveCount(u)' - LeaveCount(u)) \in {0, 1}
             /\ now[t] - LastLeave(u) >= DebounceTicks
                   => LeaveCount(u)' = LeaveCount(u) + 1]_vars

\* a user whose count reached 2 (two events at least 3 seconds apart) and
\* whose latest event fell inside the 3 seconds and was not counted
C5_Witness ==
    \E u \in Usernames :
        /\ LeaveCount(u) = 2
        /\ last_inc[u] = 0
        /\ LastLeave(u) >= T0 + DebounceTicks

\* thread t completes the store write of submit_answer(u, q) or of
\* mark_submission_verified(u, q) in this step (normally or by raising)
RecordDone(t, u, q) ==
    /\ pc[t] \in {"sa_insert", "mv_insert"}
    /\ username[t] = u
    /\ qname[t] = q
    /\ pc'[t] \notin {"sa_insert", "mv_insert"}

\* C1: when submit_answer(u, q) or mark_submission_verified(u, q) has run
\* its store write, has_submitted(u, q) is true, and the start_time of a
\* (u, q) row that existed before is unchanged.
C1_RecordedThenSubmitted ==
    [][\A t \in Threads, u \in Usernames, q \in QNames :
          RecordDone(t, u, q) =>
             /\ has_submitted(u, q)'
             /\ SelectSubStart(u, q) # None
                   => SelectSubStart(u, q)' = SelectSubStart(u, q)]_vars

\* C2: when submit_answer(u, q) or mark_submission_verified(u, q) has run,
\* can_access(u, q) is false, and every other question of u that is not
\* submitted is accessible while time is left.
C2_RecordedThenNoAccess ==
    [][\A t \in Threads, u \in Usernames, q \in QNames :
          RecordDone(t, u, q) =>
             /\ ~can_access(u, q)'
             /\ \A q2 \in QNames \ {q} :
                   (~has_submitted(u, q2)' /\ get_global_time_left(u)' > 0)
                      => can_access(u, q2)']_vars

\* C10: the write of submit_answer(u, q) or mark_submission_verified(u, q)
\* leaves a (u, q) row whose start_time is that of the row it replaces if
\* there was one, else the start_time of u's session if there is one, else
\* the time the operation read.
C10_StartTimeChoice ==
    [][\A t \in Threads, u \in Usernames, q \in QNames :
          RecordDone(t, u, q) =>
             \E r \in submissions' :
                /\ r.username = u
                /\ r.question = q
                /\ r.start_time =
                      IF SelectSubStart(u, q) # None THEN SelectSubStart(u, q)[1]
                      ELSE IF SelectSession(u) # None THEN SelectSession(u)[1]
                      ELSE IF pc[t] = "mv_insert" THEN start_ts[t] ELSE clock]_vars

\* C6: get_all_submissions has an entry for every roster user and every
\* user with a submissions row, and reports (u, q) as true exactly when the
\* submissions table holds a (u, q) row with submitted = 1.
C6_ViewMatchesRecorded ==
    LET view == get_all_submissions IN
    /\ students \subseteq DOMAIN view
    /\ {r.username : r \in submissions} \subseteq DOMAIN view
    /\ \A u \in DOMAIN view, q \in DOMAIN timers :
          view[u][q] <=> \E r \in submissions :
                            r.username = u /\ r.question = q /\ r.submitted = 1

\* the labels at which a thread is inside the store read-modify-write of a
\* state-mutating method
Mutating == {"sgt_select", "sgt_insert", "st_select", "st_insert",
             "sa_replace", "sa_insert", "mv_select", "mv_insert",
             "il_select", "il_update", "rs_delete"}

\* C7: at most one thread at a time is inside the store read-modify-write
\* of start_global_timer, start_timer, submit_answer,
\* mark_submission_verified, increment_leave_count or reset.
C7_MutatorsSerialized ==
    Cardinality({t \in Threads : pc[t] \in Mutating}) <= 1

\* thread t completes reset in this step
ResetDone(t) == pc[t] = "rs_delete" /\ pc'[t] # "rs_delete"

\* C11: the step of reset leaves the submissions table empty, so that
\* has_submitted is false for every user and question, and leaves the
\* student_metrics and test_sessions tables as they were.
C11_ResetClearsSubmissionsOnly ==
    [][\A t \in Threads :
          ResetDone(t) =>
             /\ submissions' = {}
             /\ \A u \in Usernames, q \in QNames : ~has_submitted(u, q)'
             /\ student_metrics' = student_metrics
             /\ test_sessions' = test_sessions]_vars

\* reset is about to run its DELETE on a database that holds a submitted
\* row, a row not yet submitted, a session and a leave record
C11_Witness ==
    \E t \in Threads :
        /\ pc[t] = "rs_delete"
        /\ \E r \in submissions : r.submitted = 1
        /\ \E r \in submissions : r.submitted = 0
        /\ test_sessions # {}
        /\ student_metrics # {}

\* C12: a call of increment_leave_count(u) that read the time now, with
\* d = now - last_leave_ts of u (0 for a user without a record): adds 1 to
\* leave_count when d is at least 3 seconds and leaves it unchanged
\* otherwise, sets last_leave_ts to now either way, and yields leave_count 1
\* when it is the first event recorded for u.
C12_LeaveEventRule ==
    [][\A t \in Threads, u \in Usernames :
          LeaveDone(t, u) =>
             LET d == now[t] - LastLeave(u) IN
             /\ LeaveCount(u)' =
                   IF d >= DebounceSeconds * TicksPerSec
                   THEN LeaveCount(u) + 1 ELSE LeaveCount(u)
             /\ LastLeave(u)' = now[t]
             /\ MetricsRow(u)' # {}
             /\ MetricsRow(u) = {} => LeaveCount(u)' = 1]_vars

\* every call of the behaviour was an event of the same user: the first was
\* counted, the later ones followed one another within 3 seconds, the last
\* of them after the clock had moved, and the count is still 1
C12_Witness ==
    \E u \in Usernames :
        /\ calls = 0
        /\ \A t \in Threads : pc[t] = "idle"
        /\ \A v \in Usernames \ {u} : MetricsRow(v) = {}
        /\ LeaveCount(u) = 1
        /\ LastLeave(u) > T0
        /\ last_inc[u] = 0

\* C13: no step of any operation lowers the leave_count of any user.
C13_LeaveCountMonotone ==
    [][\A u \in Usernames : LeaveCount(u)' >= LeaveCount(u)]_vars

\* a user has a counted leave event and a reset is running
C13_Witness ==
    \E u \in Usernames, t \in Threads :
        /\ LeaveCount(u) >= 1
        /\ pc[t] = "rs_delete"

\* C14: a mutating method returns normally only with its store write
\* applied: the step by which start_global_timer, start_timer,
\* submit_answer, save_submission_file, mark_submission_verified or
\* increment_leave_count returns from its write statement leaves the row
\* (or file) it was to write in the store; a failed write raises instead.
C14_NoSilentLoss ==
    [][\A t \in Threads, u \in Usernames, q \in QNames \cup {NoQ} :
          (username[t] = u /\ qname[t] = q /\ pc'[t] = "idle") =>
             /\ pc[t] = "sgt_insert" =>
                   \E r \in test_sessions' : r.username = u
             /\ pc[t] = "st_insert" =>
                   \E r \in submissions' : r.username = u /\ r.question = q
             /\ pc[t] \in {"sa_insert", "mv_insert"} =>
                   \E r \in submissions' :
                      r.username = u /\ r.question = q /\ r.submitted = 1
             /\ pc[t] \in {"sa_insert", "ss_replace"} => <<u, q>> \in files'
             /\ pc[t] = "il_update" =>
                   \E r \in student_metrics' :
                      r.username = u /\ r.last_leave_ts = now[t]]_vars

\* the only call made so far was a submit_answer whose INSERT failed after
\* the file had been moved: the caller got the exception
C14_Witness ==
    \E t \in Threads :
        /\ pc[t] = "raised"
        /\ calls = MaxCalls - 1
        /\ files # {}
        /\ submissions = {}

(* ------------------------------ verify_key ------------------------------ *)
\* how many lines a question file holds at most
MaxLines == 2

\* Strings are sequences of one-character strings.
WS == {" "}
NL == "\n"

\* str.lower() on one character
LowerChar(c) ==
    CASE c = "A" -> "a" [] c = "N" -> "n" [] c = "S" -> "s"
      [] c = "W" -> "w" [] c = "E" -> "e" [] c = "R" -> "r"
      [] c = "P" -> "p" [] c = "Q" -> "q" [] OTHER -> c

lower(str) == [i \in 1..Len(str) |-> LowerChar(str[i])]

RECURSIVE lstrip(_)
lstrip(str) ==
    IF str # <<>> /\ str[1] \in WS THEN lstrip(Tail(str)) ELSE str

RECURSIVE rstrip(_)
rstrip(str) ==
    IF str # <<>> /\ str[Len(str)] \in WS
    THEN rstrip(SubSeq(str, 1, Len(str) - 1)) ELSE str

strip(str) == rstrip(lstrip(str))

startswith(str, prefix) ==
    Len(str) >= Len(prefix) /\ SubSeq(str, 1, Len(prefix)) = prefix

\* index of the first occurrence of c in str, 0 when there is none
RECURSIVE find(_, _, _)
find(str, c, i) ==
    IF i > Len(str) THEN 0
    ELSE IF str[i] = c THEN i ELSE find(str, c, i + 1)

\* str.splitlines()
RECURSIVE splitlines(_)
splitlines(str) ==
    IF str = <<>> THEN <<>>
    ELSE LET i == find(str, NL, 1) IN
         IF i = 0 THEN <<str>>
         ELSE <<SubSeq(str, 1, i - 1)>> \o
              splitlines(SubSeq(str, i + 1, Len(str)))

\* line.split(':', 1)[1]
after_colon(line) == SubSeq(line, find(line, ":", 1) + 1, Len(line))

ANSWER == <<"a", "n", "s", "w", "e", "r", ":">>

\* the content of the question file as get_question_text returns it: None
\* when the file does not exist, <<text>> otherwise
get_question_text == question_text

\* the loop of verify_key over the lines from index i on
RECURSIVE verify_lines(_, _, _)
verify_lines(lines, i, k) ==
    IF i > Len(lines) THEN FALSE
    ELSE IF startswith(lower(strip(lines[i])), ANSWER)
         THEN LET expected == strip(after_colon(lines[i]))
              IN lower(expected) = lower(strip(k))
         ELSE verify_lines(lines, i + 1, k)

\* verify_key comparing the key without stripping it
verify_key_nostrip(k) ==
    LET text == get_question_text IN
    IF text = None \/ text[1] = <<>> THEN FALSE
    ELSE \E i \in 1..Len(splitlines(text[1])) :
            /\ startswith(lower(strip(splitlines(text[1])[i])), ANSWER)
            /\ \A j \in 1..(i - 1) :
                  ~startswith(lower(strip(splitlines(text[1])[j])), ANSWER)
            /\ lower(strip(after_colon(splitlines(text[1])[i]))) = lower(k)

verify_key(k) ==
    LET text == get_question_text IN
    IF text = None \/ text[1] = <<>> THEN FALSE
    ELSE verify_lines(splitlines(text[1]), 1, k)

\* the request layer calls verify_key with the key the student typed
verify_key_call ==
    /\ verified = "-"
    /\ verified' = IF verify_key(key) THEN "True" ELSE "False"
    /\ UNCHANGED <<clock, store, lock, pc, locals, last_inc, calls,
                   question_text, key>>

\* the question files and keys the function is applied to
AnswerPrefixes == {<<" ", "A", "n", "s", "w", "e", "r", ":">>,
                   <<"A", "N", "S", "W", "E", "R", ":">>}
AnswerValues == {<<" ", "p">>, <<"P", " ">>, <<"q", ":", "p">>}
OtherLines == {<<>>, <<"a", "n", "s", "w", "e", "r", " ", "p">>}
FileLines == {p \o v : p \in AnswerPrefixes, v \in AnswerValues} \cup OtherLines

RECURSIVE join(_)
join(lines) ==
    IF Len(lines) = 0 THEN <<>>
    ELSE IF Len(lines) = 1 THEN lines[1]
    ELSE lines[1] \o <<NL>> \o join(Tail(lines))

FileTexts ==
    {join(ls) : ls \in UNION {[1..n -> FileLines] : n \in 0..MaxLines}}

Keys == {<<>>, <<"p">>, <<" ", "P", " ">>, <<"q">>, <<"Q", ":", "p", " ">>}

InitVerify ==
    /\ Fresh
    /\ calls = 0
    /\ question_text \in {None} \cup {<<txt>> : txt \in FileTexts}
    /\ key \in Keys
    /\ verified = "-"

NextVerify == verify_key_call

SpecVerify == InitVerify /\ [][NextVerify]_vars

\* the first a and the last b characters of str are whitespace and what
\* lies between them neither starts nor ends with whitespace: dropping
\* them trims str on both sides
IsTrim(str, a, b) ==
    /\ a + b <= Len(str)
    /\ \A i \in 1..a : str[i] \in WS
    /\ \A i \in (Len(str) - b + 1)..Len(str) : str[i] \in WS
    /\ a + b = Len(str) \/ (str[a + 1] \notin WS /\ str[Len(str) - b] \notin WS)

Core(str, a, b) == SubSeq(str, a + 1, Len(str) - b)

SameIgnoringCase(x, y) ==
    Len(x) = Len(y) /\ \A i \in 1..Len(x) : LowerChar(x[i]) = LowerChar(y[i])

\* positions i..j of text hold a whole line that, after optional leading
\* whitespace, starts with "answer:" in any case; v is the end of that
\* prefix
AnswerLineAt(text, i, j, v) ==
    /\ i <= j /\ j <= Len(text)
    /\ \A n \in i..j : text[n] # NL
    /\ i = 1 \/ text[i - 1] = NL
    /\ j = Len(text) \/ text[j + 1] = NL
    /\ v <= j /\ v - 6 >= i
    /\ \A n \in i..(v - 7) : text[n] \in WS
    /\ SameIgnoringCase(SubSeq(text, v - 6, v), ANSWER)

\* C15: verify_key returns True exactly when the question file exists, has
\* an "Answer:" line, and the value after the colon of the first such line
\* equals the key once both are trimmed of surrounding whitespace and
\* compared without regard to case; otherwise it returns False.
C15_VerifyKey ==
    verified # "-" =>
       (verified = "True" <=>
          /\ question_text # None
          /\ LET text == question_text[1] IN
             \E i, j, v \in 1..Len(text) :
                /\ AnswerLineAt(text, i, j, v)
                /\ \A i2, j2, v2 \in 1..(i - 1) : ~AnswerLineAt(text, i2, j2, v2)
                /\ LET val == SubSeq(text, v + 1, j) IN
                   \E a, b \in 0..Len(key), c, d \in 0..Len(val) :
                      /\ IsTrim(key, a, b)
                      /\ IsTrim(val, c, d)
                      /\ SameIgnoringCase(Core(key, a, b), Core(val, c, d)))

\* a key typed with surrounding blanks and in another case than the
\* expected value was accepted, the Answer line not being the first line
C15_Witness ==
    /\ verified = "True"
    /\ key = <<" ", "P", " ">>
    /\ question_text = <<<<"a", "n", "s", "w", "e", "r", " ", "p", NL,
                           " ", "A", "n", "s", "w", "e", "r", ":", " ", "p">>>>

(* ------------------------------ C16 ------------------------------------- *)
\* the statements a thread executes inside a method, the wait for the lock
\* apart
Step(t) ==
    \/ sgt_select(t) \/ sgt_insert(t)
    \/ st_select(t) \/ st_insert(t)
    \/ sa_replace(t) \/ sa_insert(t)
    \/ ss_replace(t)
    \/ mv_select(t) \/ mv_insert(t)
    \/ rs_delete(t)
    \/ il_select(t) \/ il_update(t)

\* the calls of one student on one question from two threads
NextFair ==
    \/ Tick
    \/ \E t \in Threads : Acquire(t)
    \/ \E t \in Threads, u \in students : start_global_timer(t, u)
    \/ \E t \in Threads, u \in students : start_timer(t, u, "question1")
    \/ \E t \in Threads, u \in students : submit_answer(t, u, "question1")
    \/ \E t \in Threads, u \in students : save_submission_file(t, u, "question1")
    \/ \E t \in Threads, u \in students : mark_submission_verified(t, u, "question1")
    \/ \E t \in Threads : reset(t)
    \/ \E t \in Threads, u \in students : increment_leave_count(t, u)
    \/ \E t \in Threads : Step(t)

\* fair scheduling: a thread that can execute its next statement eventually
\* does, and a thread waiting for a lock that is free again and again
\* eventually gets it
SpecFair ==
    /\ Init
    /\ [][NextFair]_vars
    /\ \A t \in Threads : WF_vars(Step(t)) /\ SF_vars(Acquire(t))

\* C16: under fair scheduling a call that waits for the lock eventually
\* holds it, and every call eventually returns or raises
C16_NoIndefiniteBlocking ==
    \A t \in Threads :
       /\ (pc[t] \in DOMAIN AfterLock) ~> (lock = t)
       /\ (~Idle(t)) ~> Idle(t)

\* a call waits for the lock while the holder is about to fail on its
\* store write, the file already moved
C16_Witness ==
    \E t, h \in Threads :
       /\ pc[t] \in DOMAIN AfterLock
       /\ lock = h
       /\ pc[h] = "sa_insert"
       /\ <<username[h], qname[h]>> \in files

(* ------------------------------ C17 ------------------------------------- *)
\* what the three tables hold about user v
UserRows(v) ==
    <<{r \in test_sessions : r.username = v},
      {r \in submissions : r.username = v},
      {r \in student_metrics : r.username = v}>>

C18_ViewAgreesWithStore ==
    LET view == get_all_submissions IN
    (\A t \in Threads : Idle(t)) =>
       \A u \in DOMAIN view, q \in DOMAIN timers :
          view[u][q] <=> has_submitted(u, q)

(* ------------------------------ C19 ------------------------------------- *)
\* C19: when submit_answer(u, q) raises, the submission file of (u, q) is
\* there exactly if it was there when the call was made, and the submitted
\* flag of (u, q) is what it was then
C19_SubmitAllOrNothing ==
    [][\A t \in Threads, u \in Usernames, q \in QNames :
          (/\ pc[t] \in {"sa_replace", "sa_insert"}
           /\ pc'[t] = "raised"
           /\ username[t] = u
           /\ qname[t] = q) =>
             /\ (<<u, q>> \in files') = before[t].file
             /\ SelectSubmitted(u, q)' = before[t].submitted]_vars

(* ------------------------------ C20 ------------------------------------- *)
\* C20: a started session whose time left is 0 gives access to no question,
\* and no step of any operation ends that: after the step the session is
\* still started and its time left still 0
C20_ExpiryPermanent ==
    [][\A u \in Usernames :
          /\ (has_global_started(u)' /\ get_global_time_left(u)' = 0) =>
                \A q \in QNames : ~(can_access(u, q)')
          /\ (has_global_started(u) /\ get_global_time_left(u) = 0) =>
                (has_global_started(u)' /\ get_global_time_left(u)' = 0)]_vars

\* start_global_timer is called again for a user whose session has run
\* out, and is reading the session row
C20_Witness ==
    \E t \in Threads, u \in Usernames :
       /\ has_global_started(u)
       /\ get_global_time_left(u) = 0
       /\ pc[t] = "sgt_select"
       /\ username[t] = u

====
